---- MODULE Spec2Model ----
(***************************************************************************)
(* MMSeparateDistributedDataParallel                                       *)
(* (src/mmengine/model/wrappers/seperate_distributed.py).                  *)
(*                                                                         *)
(* The wrapper holds a composite module whose ordered child mapping        *)
(* (module._modules) is rewritten by the constructor: every child is moved *)
(* to the device and, unless one of two tests sends it down the raw path,  *)
(* replaced by an MMDistributedDataParallel adapter.  Afterwards the       *)
(* wrapper forwards train_step / val_step / test_step, sets the training   *)
(* mode and offers the generator-based no_sync() context.                  *)
(***************************************************************************)
EXTENDS Integers, Sequences, FiniteSets, TLC

\* ------------------------------------------------------------- bounds
MaxChildren == 2        \* children of the composite module
MaxParams == 2          \* parameters of one child
MaxOwnParams == 1       \* parameters held directly by the composite module
MaxArgs == 1            \* positional configuration arguments (*args)
MaxLifeParams == 1      \* parameters of one child where calls follow construction

ChildNames == <<"gen", "disc", "aux", "enc", "dec">>

\* ------------------------------------------------------------- values
BoolSeqs(n) == UNION {[1..k -> BOOLEAN] : k \in 0..n}

\* *args: positional configuration values.
ArgSeqs == UNION {[1..k -> {"cfg"}] : k \in 0..MaxArgs}

\* **kwargs: a mapping, kept as a set of <<key, value>> pairs.
KwargSets == {{}, {<<"broadcast_buffers", "False">>}}

\* cfg is <<>> for a raw child and <<[args, kwargs]>> for an adapter.
NoCfg == <<>>

\* A freshly built child module (nn.Module defaults: training mode on, on the
\* host).  params lists the requires_grad flag of each of its parameters.
\* For an adapter, training / sync are the adapter's own flag and its
\* require_backward_grad_sync, core is the training flag of the child inside.
NewChild(ps) ==
    [wrapped |-> FALSE, cuda |-> FALSE, params |-> ps, training |-> TRUE,
     core |-> TRUE, sync |-> TRUE, cfg |-> NoCfg]

\* The ordered mapping module._modules as a sequence of items.
NewModules(n, pss) == [k \in 1..n |-> [name |-> ChildNames[k], obj |-> NewChild(pss[k])]]

NameSeq(mods) == [k \in 1..Len(mods) |-> mods[k].name]
NameSet(mods) == {mods[k].name : k \in 1..Len(mods)}
IndexOf(mods, name) == CHOOSE k \in 1..Len(mods) : mods[k].name = name

VARIABLES
    pc,          \* "init": inside __init__'s loop; "ready"; "failed": __init__ raised
    i,           \* position of the constructor's loop in module._modules.items()
    names0,      \* the child names of the module as handed to the constructor
    modules,     \* module._modules
    own,         \* requires_grad of the composite module's direct parameters
    args,        \* *args of the constructor
    kwargs,      \* **kwargs of the constructor
    training,    \* self.training
    modTraining, \* self.module.training
    ctx,         \* no_sync scope: "idle", "body" (caller's block runs), "leaked"
    stack,       \* the ExitStack of the suspended no_sync generator
    pos,         \* position of the suspended generator in _modules.values()
    trace,       \* events of the current / latest no_sync scope
    cycle,       \* the latest forward/backward cycle through a child
    calls,       \* step calls made to the inner module by the latest wrapper call
    ret          \* the latest wrapper call and what it gave the caller

vars == <<pc, i, names0, modules, own, args, kwargs, training, modTraining,
          ctx, stack, pos, trace, cycle, calls, ret>>

ctorIn == <<names0, own, args, kwargs>>
scope == <<ctx, stack, pos, trace>>

\* ret: one shape for every call.
Ret(op, data, optim, mode, err, val) ==
    [op |-> op, data |-> data, optim |-> optim, mode |-> mode, err |-> err, val |-> val]
NoRet == Ret("-", "-", "-", TRUE, "none", {})
NoCycle == [name |-> "-", synced |-> FALSE, ctx |-> "-"]

\* ------------------------------------------------- __init__, lines 42-56
\* module.parameters(): the module's direct parameters, then each child's.
RECURSIVE ChildParameters(_, _)
ChildParameters(mods, k) ==
    IF k > Len(mods) THEN <<>> ELSE mods[k].obj.params \o ChildParameters(mods, k + 1)

ModuleParameters(mods, ownPs) == ownPs \o ChildParameters(mods, 1)

\* next(_module.parameters(), None) is None            (line 49)
HasNoParameters(obj) == Len(obj.params) = 0

\* all(not p.requires_grad for p in ps)                (line 51)
AllNoGrad(ps) == \A k \in 1..Len(ps) : ~ps[k]

\* _module.cuda()
Cuda(obj) == [obj EXCEPT !.cuda = TRUE]

\* The first positional parameter of the adapter's constructor.
AdapterFirstParam == "module"

\* MMDistributedDataParallel(module=m, *a, **kw)       (lines 54-55)
\* Python binds *a to the leading positional parameters first; the keyword
\* module= then names a parameter that already has a value: TypeError.
\* Otherwise the adapter is taken to accept the module it is given.
CallAdapter(m, a, kw) ==
    IF Len(a) >= 1 /\ AdapterFirstParam = "module"
    THEN [err |-> "TypeError", obj |-> m]
    ELSE [err |-> "none",
          obj |-> [wrapped |-> TRUE, cuda |-> m.cuda, params |-> m.params,
                   training |-> TRUE, core |-> m.training, sync |-> TRUE,
                   cfg |-> <<[args |-> a, kwargs |-> kw]>>]]

\* The if / elif / else of one loop iteration          (lines 49-55)
WrapChild(_module, mods, ownPs, a, kw) ==
    IF HasNoParameters(_module)
    THEN [err |-> "none", obj |-> Cuda(_module)]
    ELSE IF AllNoGrad(ModuleParameters(mods, ownPs))
         THEN [err |-> "none", obj |-> Cuda(_module)]
         ELSE CallAdapter(Cuda(_module), a, kw)

\* module._modules[name] = _module                     (line 56)
StoreChild_DropRaw(mods, name, obj) ==
    IF obj.wrapped
    THEN [k \in 1..Len(mods) |->
            IF mods[k].name = name THEN [name |-> name, obj |-> obj] ELSE mods[k]]
    ELSE SelectSeq(mods, LAMBDA it : it.name # name)

StoreChild(mods, name, obj) ==
    IF name \in NameSet(mods)
    THEN [k \in 1..Len(mods) |->
            IF mods[k].name = name THEN [name |-> name, obj |-> obj] ELSE mods[k]]
    ELSE Append(mods, [name |-> name, obj |-> obj])

\* One iteration of the loop at position k             (lines 47-56)
CtorIter(mods, ownPs, a, kw, k) ==
    LET r == WrapChild(mods[k].obj, mods, ownPs, a, kw)
    IN  IF r.err = "none"
        THEN [err |-> "none", modules |-> StoreChild(mods, mods[k].name, r.obj)]
        ELSE [err |-> r.err, modules |-> mods]

\* The whole loop from position k on.
RECURSIVE CtorLoop(_, _, _, _, _)
CtorLoop(mods, ownPs, a, kw, k) ==
    IF k > Len(mods)
    THEN [err |-> "none", modules |-> mods]
    ELSE LET r == CtorIter(mods, ownPs, a, kw, k)
         IN  IF r.err = "none" THEN CtorLoop(r.modules, ownPs, a, kw, k + 1) ELSE r

\* What the caller may hand to the constructor.
Inputs(maxPs) ==
    {[modules |-> NewModules(n, pss), own |-> o, args |-> a, kwargs |-> kw] :
        n \in 0..MaxChildren, pss \in [1..MaxChildren -> BoolSeqs(maxPs)],
        o \in BoolSeqs(MaxOwnParams), a \in ArgSeqs, kw \in KwargSets}

\* Lines 43-44 done: nn.Module.__init__ has set self.training, self.module is
\* bound, the loop is about to start.
InitWith(ins) ==
    /\ \E in \in ins :
          /\ modules = in.modules
          /\ own = in.own
          /\ args = in.args
          /\ kwargs = in.kwargs
    /\ names0 = NameSeq(modules)
    /\ pc = "init"
    /\ i = 1
    /\ training = TRUE
    /\ modTraining = TRUE
    /\ ctx = "idle"
    /\ stack = <<>>
    /\ pos = 1
    /\ trace = <<>>
    /\ cycle = NoCycle
    /\ calls = <<>>
    /\ ret = NoRet

InitCtor == InitWith(Inputs(MaxParams))

\* One pass through the loop body (lines 47-56); an error of the adapter's
\* constructor leaves __init__ with the mapping as it is.
InitLoopStep ==
    /\ pc = "init"
    /\ i <= Len(modules)
    /\ LET r == CtorIter(modules, own, args, kwargs, i)
       IN  /\ modules' = r.modules
           /\ IF r.err = "none"
              THEN /\ i' = i + 1
                   /\ pc' = pc
                   /\ ret' = ret
              ELSE /\ i' = i
                   /\ pc' = "failed"
                   /\ ret' = Ret("__init__", "-", "-", TRUE, r.err, {})
    /\ UNCHANGED <<ctorIn, training, modTraining, scope, cycle, calls>>

\* The loop is exhausted and __init__ returns.
InitReturn ==
    /\ pc = "init"
    /\ i > Len(modules)
    /\ pc' = "ready"
    /\ ret' = Ret("__init__", "-", "-", TRUE, "none", {})
    /\ UNCHANGED <<i, ctorIn, modules, training, modTraining, scope, cycle, calls>>

NextCtor == InitLoopStep \/ InitReturn

SpecInit == InitCtor /\ [][NextCtor]_vars


\* The state right after a constructor call that returned.
InitBuilt(ins) ==
    /\ \E in \in ins :
          LET built == CtorLoop(in.modules, in.own, in.args, in.kwargs, 1)
          IN  /\ built.err = "none"
              /\ modules = built.modules
              /\ names0 = NameSeq(in.modules)
              /\ own = in.own
              /\ args = in.args
              /\ kwargs = in.kwargs
    /\ pc = "ready"
    /\ i = Len(modules) + 1
    /\ training = TRUE
    /\ modTraining = TRUE
    /\ ctx = "idle"
    /\ stack = <<>>
    /\ pos = 1
    /\ trace = <<>>
    /\ cycle = NoCycle
    /\ calls = <<>>
    /\ ret = Ret("__init__", "-", "-", TRUE, "none", {})

InitReady == InitBuilt(Inputs(MaxParams))

\* ---------------------------------------------------- no_sync, lines 95-102
Event(e, name) == [e |-> e, name |-> name]

\* ExitStack.__exit__: the registered child contexts are left last-in first-out;
\* leaving an adapter's no_sync restores its require_backward_grad_sync.
RECURSIVE Unwind(_, _, _)
Unwind(mods, st, tr) ==
    IF st = <<>>
    THEN [modules |-> mods, trace |-> tr]
    ELSE LET top == st[Len(st)]
             k == IndexOf(mods, top.name)
         IN  Unwind([mods EXCEPT ![k].obj.sync = top.old],
                    SubSeq(st, 1, Len(st) - 1),
                    Append(tr, Event("exit", top.name)))

\* The generator body run from loop position p to its next suspension:
\*   for sub_ddp_model in self.module._modules.values():
\*       stack.enter_context(sub_ddp_model.no_sync())
\*       yield
\* The yield is inside the loop, so one resumption runs at most one iteration.
\* A raw child is a plain nn.Module, which has no attribute no_sync.
GenResume(mods, st, p, tr) ==
    IF p > Len(mods)
    THEN LET u == Unwind(mods, st, tr)
         IN  [kind |-> "return", err |-> "none", modules |-> u.modules,
              stack |-> <<>>, pos |-> p, trace |-> u.trace]
    ELSE IF ~mods[p].obj.wrapped
         THEN LET u == Unwind(mods, st, tr)
              IN  [kind |-> "raise", err |-> "AttributeError", modules |-> u.modules,
                   stack |-> <<>>, pos |-> p, trace |-> u.trace]
         ELSE [kind |-> "yield", err |-> "none",
               modules |-> [mods EXCEPT ![p].obj.sync = FALSE],
               stack |-> Append(st, [name |-> mods[p].name, old |-> mods[p].obj.sync]),
               pos |-> p + 1,
               trace |-> tr \o <<Event("enter", mods[p].name), Event("yield", "-")>>]

\* with wrapper.no_sync(): -- @contextmanager's __enter__ runs the generator to
\* its first yield; a generator that ends without yielding is a RuntimeError.
NoSyncEnter ==
    /\ pc = "ready"
    /\ ctx = "idle"
    /\ LET r == GenResume(modules, <<>>, 1, <<>>)
       IN  /\ modules' = r.modules
           /\ stack' = r.stack
           /\ pos' = r.pos
           /\ trace' = r.trace
           /\ ctx' = IF r.kind = "yield" THEN "body" ELSE "idle"
           /\ ret' = Ret("no_sync.__enter__", "-", "-", TRUE,
                         CASE r.kind = "yield" -> "none"
                           [] r.kind = "return" -> "RuntimeError: generator didn't yield"
                           [] OTHER -> r.err,
                         {})
    /\ UNCHANGED <<pc, i, ctorIn, training, modTraining, cycle>>
    /\ calls' = <<>>

\* The caller's block ends normally: __exit__(None, None, None) resumes the
\* generator.  If it yields again, __exit__ raises RuntimeError; newer
\* contextlib versions close the generator first, older ones leave it suspended
\* (with its child contexts entered) until it is finalized.
NoSyncExit ==
    /\ pc = "ready"
    /\ ctx = "body"
    /\ LET r == GenResume(modules, stack, pos, Append(trace, Event("block_end", "-")))
       IN  IF r.kind = "yield"
           THEN \E closes \in BOOLEAN :
                  LET u == Unwind(r.modules, r.stack, r.trace)
                  IN  /\ modules' = IF closes THEN u.modules ELSE r.modules
                      /\ stack' = IF closes THEN <<>> ELSE r.stack
                      /\ trace' = IF closes THEN u.trace ELSE r.trace
                      /\ ctx' = IF closes THEN "idle" ELSE "leaked"
                      /\ pos' = r.pos
                      /\ ret' = Ret("no_sync.__exit__", "-", "-", TRUE,
                                    "RuntimeError: generator didn't stop", {})
           ELSE /\ modules' = r.modules
                /\ stack' = r.stack
                /\ trace' = r.trace
                /\ ctx' = "idle"
                /\ pos' = r.pos
                /\ ret' = Ret("no_sync.__exit__", "-", "-", TRUE, r.err, {})
    /\ UNCHANGED <<pc, i, ctorIn, training, modTraining, cycle>>
    /\ calls' = <<>>

\* The caller's block raises: __exit__ throws the error into the generator at
\* its yield, the ExitStack unwinds and the error goes on to the caller.
NoSyncRaise ==
    /\ pc = "ready"
    /\ ctx = "body"
    /\ LET u == Unwind(modules, stack, Append(trace, Event("block_end", "-")))
       IN  /\ modules' = u.modules
           /\ trace' = u.trace
    /\ stack' = <<>>
    /\ ctx' = "idle"
    /\ ret' = Ret("no_sync.__exit__(exc)", "-", "-", TRUE, "BlockError", {})
    /\ UNCHANGED <<pc, i, ctorIn, training, modTraining, pos, cycle>>
    /\ calls' = <<>>

\* A generator left suspended is finalized (GeneratorExit at its yield).
GenFinalize ==
    /\ ctx = "leaked"
    /\ LET u == Unwind(modules, stack, trace)
       IN  /\ modules' = u.modules
           /\ trace' = u.trace
    /\ stack' = <<>>
    /\ ctx' = "idle"
    /\ UNCHANGED <<pc, i, ctorIn, training, modTraining, pos, cycle, calls, ret>>

\* One forward/backward cycle through child k: an adapter all-reduces the
\* gradients iff its require_backward_grad_sync is set; a raw child never does.
ForwardBackward(k) ==
    /\ pc = "ready"
    /\ k \in 1..Len(modules)
    /\ cycle' = [name |-> modules[k].name,
                 synced |-> modules[k].obj.wrapped /\ modules[k].obj.sync,
                 ctx |-> ctx]
    /\ UNCHANGED <<pc, i, ctorIn, modules, training, modTraining, scope, calls, ret>>

NextNoSync ==
    \/ NoSyncEnter
    \/ NoSyncExit
    \/ NoSyncRaise
    \/ GenFinalize
    \/ \E k \in 1..MaxChildren : ForwardBackward(k)

SpecNoSync == InitReady /\ [][NextNoSync]_vars


\* ------------------------------------------------------ train, lines 104-124
\* nn.Module.train(mode) on the composite module reaches every child; an
\* adapter's train sets its own flag and that of the child inside it.
ChildSetMode(obj, mode) ==
    [obj EXCEPT !.training = mode, !.core = IF obj.wrapped THEN mode ELSE @]

ModuleTrain(mods, mode) ==
    [k \in 1..Len(mods) |-> [mods[k] EXCEPT !.obj = ChildSetMode(mods[k].obj, mode)]]

Self == {<<"return", "self">>}

train_KeepOwnFlag(mode) ==
    /\ pc = "ready"
    /\ modTraining' = mode
    /\ modules' = ModuleTrain(modules, mode)
    /\ ret' = Ret("train", "-", "-", mode, "none", Self)
    /\ UNCHANGED <<pc, i, ctorIn, training, scope, cycle>>
    /\ calls' = <<>>

train_Reclassify(mode) ==
    /\ pc = "ready"
    /\ training' = mode
    /\ modTraining' = mode
    /\ modules' = CtorLoop(ModuleTrain(modules, mode), own, <<>>, kwargs, 1).modules
    /\ ret' = Ret("train", "-", "-", mode, "none", Self)
    /\ UNCHANGED <<pc, i, ctorIn, scope, cycle>>
    /\ calls' = <<>>

train(mode) ==
    /\ pc = "ready"
    /\ training' = mode                                       \* line 122
    /\ modTraining' = mode                                    \* line 123
    /\ modules' = ModuleTrain(modules, mode)
    /\ ret' = Ret("train", "-", "-", mode, "none", Self)      \* line 124
    /\ UNCHANGED <<pc, i, ctorIn, scope, cycle>>
    /\ calls' = <<>>

\* The caller sets the mode of one child directly (child.train(mode) / eval()).
ChildTrain(k, mode) ==
    /\ pc = "ready"
    /\ k \in 1..Len(modules)
    /\ modules' = [modules EXCEPT ![k].obj = ChildSetMode(@, mode)]
    /\ ret' = Ret("child.train", modules[k].name, "-", mode, "none", {})
    /\ UNCHANGED <<pc, i, ctorIn, training, modTraining, scope, cycle, calls>>

\* ------------------------------- train_step / val_step / test_step, 58-93
Data == {"batch1", "batch2"}
Optims == {"optim1", "optim2"}

\* What the inner module's step may produce: a mapping / predictions, or a failure.
InnerOutcomes ==
    {[err |-> "none", val |-> {<<"loss", "t1">>}],
     [err |-> "none", val |-> {<<"loss_g", "t1">>, <<"loss_d", "t2">>}],
     [err |-> "none", val |-> {}],
     [err |-> "InnerError", val |-> {}]}

Call(method, data, optim, out) ==
    [method |-> method, data |-> data, optim |-> optim, out |-> out]

\* return self.module.train_step(data, optim_wrapper)     (line 71)
train_step(data, optim_wrapper, out) ==
    /\ pc = "ready"
    /\ calls' = <<Call("train_step", data, optim_wrapper, out)>>
    /\ ret' = Ret("train_step", data, optim_wrapper, TRUE, out.err, out.val)
    /\ UNCHANGED <<pc, i, ctorIn, modules, training, modTraining, scope, cycle>>

\* return self.module.val_step(data)                      (line 82)
val_step_CallsTest(data, out) ==
    /\ pc = "ready"
    /\ calls' = <<Call("test_step", data, "-", out)>>
    /\ ret' = Ret("val_step", data, "-", TRUE, out.err, out.val)
    /\ UNCHANGED <<pc, i, ctorIn, modules, training, modTraining, scope, cycle>>

val_step(data, out) ==
    /\ pc = "ready"
    /\ calls' = <<Call("val_step", data, "-", out)>>
    /\ ret' = Ret("val_step", data, "-", TRUE, out.err, out.val)
    /\ UNCHANGED <<pc, i, ctorIn, modules, training, modTraining, scope, cycle>>

\* return self.module.test_step(data)                     (line 93)
test_step(data, out) ==
    /\ pc = "ready"
    /\ calls' = <<Call("test_step", data, "-", out)>>
    /\ ret' = Ret("test_step", data, "-", TRUE, out.err, out.val)
    /\ UNCHANGED <<pc, i, ctorIn, modules, training, modTraining, scope, cycle>>

\* ------------------------------------------- the children's parameters later
\* After construction the caller may flip a parameter's requires_grad, register
\* a parameter on a child or delete one.
SetRequiresGrad(k, j, b) ==
    /\ pc = "ready"
    /\ k \in 1..Len(modules)
    /\ j \in 1..Len(modules[k].obj.params)
    /\ modules' = [modules EXCEPT ![k].obj.params[j] = b]
    /\ UNCHANGED <<pc, i, ctorIn, training, modTraining, scope, cycle, calls, ret>>

AddParameter(k, b) ==
    /\ pc = "ready"
    /\ k \in 1..Len(modules)
    /\ Len(modules[k].obj.params) < MaxLifeParams
    /\ modules' = [modules EXCEPT ![k].obj.params = Append(@, b)]
    /\ UNCHANGED <<pc, i, ctorIn, training, modTraining, scope, cycle, calls, ret>>

DelParameter(k) ==
    /\ pc = "ready"
    /\ k \in 1..Len(modules)
    /\ Len(modules[k].obj.params) >= 1
    /\ modules' = [modules EXCEPT ![k].obj.params = SubSeq(@, 1, Len(@) - 1)]
    /\ UNCHANGED <<pc, i, ctorIn, training, modTraining, scope, cycle, calls, ret>>

\* ------------------------------------------------------------ specifications
\* Small inputs for the specifications of the calls that follow construction:
\* no direct parameters and no keyword configuration.
LifeInputs == {in \in Inputs(MaxLifeParams) : in.own = <<>> /\ in.kwargs = {}}

InitLife == InitBuilt(LifeInputs)

\* In the whole-life specification a step either fails or returns an empty result.
LifeOutcomes == {out \in InnerOutcomes : out.val = {}}

NextTrain ==
    \/ \E mode \in BOOLEAN : train(mode)
    \/ \E k \in 1..MaxChildren, mode \in BOOLEAN : ChildTrain(k, mode)

SpecTrain == InitLife /\ [][NextTrain]_vars

NextSteps ==
    \/ \E d \in Data, o \in Optims, out \in InnerOutcomes : train_step(d, o, out)
    \/ \E d \in Data, out \in InnerOutcomes : val_step(d, out)
    \/ \E d \in Data, out \in InnerOutcomes : test_step(d, out)
    \/ \E mode \in BOOLEAN : train(mode)

SpecSteps == InitLife /\ [][NextSteps]_vars

\* The wrapper's whole life: construction, then any calls in any order, while
\* the caller changes the children's parameters.
Init == InitWith(LifeInputs)

Next ==
    \/ InitLoopStep
    \/ InitReturn
    \/ NoSyncEnter
    \/ NoSyncExit
    \/ NoSyncRaise
    \/ GenFinalize
    \/ \E mode \in BOOLEAN : train(mode)
    \/ \E out \in LifeOutcomes : train_step("batch1", "optim1", out)
    \/ \E out \in LifeOutcomes : val_step("batch1", out)
    \/ \E out \in LifeOutcomes : test_step("batch1", out)
    \/ \E k \in 1..MaxChildren, j \in 1..MaxLifeParams, b \in BOOLEAN : SetRequiresGrad(k, j, b)
    \/ \E k \in 1..MaxChildren, b \in BOOLEAN : AddParameter(k, b)
    \/ \E k \in 1..MaxChildren : DelParameter(k)

Spec == Init /\ [][Next]_vars


\* --------------------------------------------------------------- properties
Items == 1..Len(modules)
Trainable(obj) == \E j \in 1..Len(obj.params) : obj.params[j]
Frozen(obj) == Len(obj.params) >= 1 /\ AllNoGrad(obj.params)
Kinds == [k \in Items |-> <<modules[k].name, modules[k].obj.wrapped>>]
StepOps == {"train_step", "val_step", "test_step"}
EventNames(tr, e) ==
    LET sel == SelectSeq(tr, LAMBDA ev : ev.e = e)
    IN  [k \in 1..Len(sel) |-> sel[k].name]
Reverse(sq) == [k \in 1..Len(sq) |-> sq[Len(sq) + 1 - k]]
Yields(tr) == Len(EventNames(tr, "yield"))
BlockEnded(tr) == \E k \in 1..Len(tr) : tr[k].e = "block_end"
AllWrapped == \A k \in Items : modules[k].obj.wrapped

\* C1: at every step of the constructor's loop and after it, the child names of
\* the composite module are exactly those it was handed with: none added, none
\* removed, only the objects replaced.
C1_ChildNamesPreserved ==
    /\ NameSet(modules) = {names0[k] : k \in 1..Len(names0)}
    /\ Len(modules) = Len(names0)

C1_Witness ==
    /\ pc = "ready"
    /\ \E k \in Items : modules[k].obj.wrapped
    /\ \E k \in Items : ~modules[k].obj.wrapped /\ modules[k].obj.cuda

\* C2: once the constructor has returned, a child that has parameters, none of
\* them gradient-tracked, is not adapter-wrapped and is on the device, whatever
\* its siblings' or the composite module's own parameters are.
C2_FrozenChildStaysRaw ==
    pc = "ready" =>
        \A k \in Items :
            Frozen(modules[k].obj) => ~modules[k].obj.wrapped /\ modules[k].obj.cuda

\* C3: once the constructor is over, every child with a gradient-tracked
\* parameter is adapter-wrapped, the adapter built around the device-placed child
\* with exactly the constructor's positional and keyword configuration, for any
\* number of positional arguments.
C3_TrainableWrappedWithConfig ==
    pc \in {"ready", "failed"} =>
        \A k \in Items :
            Trainable(modules[k].obj) =>
                /\ modules[k].obj.wrapped
                /\ modules[k].obj.cuda
                /\ modules[k].obj.cfg = <<[args |-> args, kwargs |-> kwargs]>>

\* C4: while the caller's block of no_sync() runs, the no_sync context of every
\* adapter-wrapped child has been entered and its synchronization is suspended.
C4_AllEnteredBeforeBlock ==
    ctx = "body" =>
        \A k \in Items :
            modules[k].obj.wrapped =>
                /\ ~modules[k].obj.sync
                /\ \E s \in 1..Len(stack) : stack[s].name = modules[k].name

\* C5: once the caller's block has ended and the scope's exit is over (normal or
\* by an error), no child context was entered after the block ended, the entered
\* ones were released in reverse order of acquisition, no child is left with
\* synchronization suspended, and a forward/backward cycle through an adapter
\* outside the block synchronizes.
C5_ReleasedOnExit ==
    /\ (ctx # "body" /\ BlockEnded(trace)) =>
          /\ \A k \in 1..Len(trace) : \A b \in 1..Len(trace) :
                (trace[b].e = "block_end" /\ k > b) => trace[k].e # "enter"
          /\ EventNames(trace, "exit") = Reverse(EventNames(trace, "enter"))
          /\ \A k \in Items : modules[k].obj.sync
    /\ \A k \in Items :
          (modules[k].obj.wrapped /\ cycle.name = modules[k].name
              /\ cycle.ctx \in {"idle", "leaked"}) => cycle.synced

\* C6: entering no_sync() on a composite module that has a child without an
\* adapter raises no error and suspends the synchronization of every
\* adapter-wrapped child.
C6_RawChildrenSkipped ==
    (ret.op = "no_sync.__enter__" /\ \E k \in Items : ~modules[k].obj.wrapped) =>
        /\ ret.err = "none"
        /\ ctx = "body"
        /\ \A k \in Items : modules[k].obj.wrapped => ~modules[k].obj.sync

\* C7: after train(mode) the wrapper's flag, the composite module's flag and the
\* flag of every child (the adapter's and that of the child inside it, or the
\* raw child's) equal mode, and the call returned the wrapper.
C7_TrainSetsEveryFlag ==
    ret.op = "train" =>
        /\ training = ret.mode
        /\ modTraining = ret.mode
        /\ \A k \in Items :
              /\ modules[k].obj.training = ret.mode
              /\ modules[k].obj.wrapped => modules[k].obj.core = ret.mode
        /\ ret.err = "none"
        /\ ret.val = Self

C7_Witness ==
    /\ ret.op = "train"
    /\ ~ret.mode
    /\ ~training
    /\ \E k \in Items : modules[k].obj.wrapped /\ ~modules[k].obj.core
    /\ \E k \in Items : ~modules[k].obj.wrapped /\ ~modules[k].obj.training

\* C8: a train_step / val_step / test_step call makes exactly one call to the
\* composite module, to the method of the same name with the same arguments,
\* gives the caller that call's outcome (value or failure) as it is, and changes
\* nothing of the wrapper, the child mapping or the no_sync scope.
C8_StepsDelegate ==
    [][(ret'.op \in StepOps /\ <<ret, calls>>' # <<ret, calls>>) =>
          /\ Len(calls') = 1
          /\ calls'[1].method = ret'.op
          /\ calls'[1].data = ret'.data
          /\ calls'[1].optim = ret'.optim
          /\ ret'.err = calls'[1].out.err
          /\ ret'.val = calls'[1].out.val
          /\ UNCHANGED <<training, modTraining, modules, scope>>]_vars

C8_Witness ==
    /\ ret.op = "val_step"
    /\ ret.data = "batch2"
    /\ ret.err = "none"
    /\ ret.val # {}
    /\ ~training

\* C9: once the constructor has returned, no call and no change of the children's
\* parameters changes the child names, their order, or whether a name maps to an
\* adapter or to a raw child.
C9_MappingFixedAfterInit == [][pc = "ready" => Kinds' = Kinds]_vars

C9_Witness ==
    /\ pc = "ready"
    /\ ret.op = "train"
    /\ \E k \in Items : ~modules[k].obj.wrapped /\ Trainable(modules[k].obj)
    /\ \E k \in Items : modules[k].obj.wrapped /\ ~Trainable(modules[k].obj)

\* C10: when every child is adapter-wrapped (any number of children, none
\* included), entering no_sync() hands control to the caller's block exactly
\* once, and the exit after a block that ended normally raises nothing.
C10_YieldsOnceExitsClean ==
    AllWrapped =>
        /\ ret.op = "no_sync.__enter__" =>
              ret.err = "none" /\ ctx = "body" /\ Yields(trace) = 1
        /\ ret.op = "no_sync.__exit__" =>
              ret.err = "none" /\ Yields(trace) = 1

====
